---- MODULE Spec2Model ----
(***************************************************************************)
(* Model of vcpkg_assets.py: the asset cache of a vcpkg workspace.         *)
(*                                                                         *)
(*   download  (download_assets)     runs "vcpkg install" per manifest and *)
(*                                   records the assets it used            *)
(*   state     (show_assets_state)   reconciles the cache with the         *)
(*                                   manifests and prints the categories   *)
(*   cleanup   (cleanup_assets)      reconciles, then deletes the extras   *)
(*                                                                         *)
(* The file system is the state: the manifest directory, the asset cache   *)
(* directory (asset blobs, one info file _<project>.json per project,      *)
(* other files) and the per-project work directories.  File names are      *)
(* drawn from a small universe; what the program's regular expressions     *)
(* look at (hex characters, length, the _<name>.json shape) is a property  *)
(* of each name.  A dict is a set of <<key, value>> pairs with unique keys.*)
(* A list the program never indexes and that holds no duplicates is a set. *)
(***************************************************************************)
EXTENDS Naturals, Sequences, FiniteSets, TLC

(***************************************************************************)
(* Bounds of the model.                                                    *)
(***************************************************************************)
\* The installer output of one run holds at most this many relevant lines.
MaxOutputLines == 2

\* A direct call of AssetsInfo.load_from_files is given at most this many
\* files.
MaxFiles == 2

(***************************************************************************)
(* Program constants.                                                      *)
(***************************************************************************)
\* _is_asset_file: r'[0-9a-f]{128}'
AssetHashLen == 128

(***************************************************************************)
(* The universe of names.                                                  *)
(***************************************************************************)
\* Project names (the stems of the manifest files), in the order in which
\* MANIFEST_DIR.glob('*.json') lists them.
ListingOrder == <<"p1", "p2">>

Projects == {ListingOrder[i] : i \in 1..Len(ListingOrder)}

\* "none": the file (or directory entry) does not exist.
NoFile == "none"

\* The contents a manifest file can have.
ManifestContents == {"c1", "c2"}

\* Names made of the characters 0-9a-f only: a1 and a2 are 128 characters
\* long (sha512 digests), s1 is shorter.
HexNames == {"a1", "a2", "s1"}

NameLen(name) ==
    CASE name = "a1" -> 128
      [] name = "a2" -> 128
      [] name = "s1" -> 40
      [] OTHER -> 8

\* A file of the cache directory that is neither hex nor _<name>.json.
OtherNames == {"notes.txt"}

\* f'_{project_name}.json'
InfoFileName(p) ==
    CASE p = "p1" -> "_p1.json"
      [] p = "p2" -> "_p2.json"

InfoNames == {InfoFileName(p) : p \in Projects}

\* The origin URL vcpkg prints for an asset: fixed by the port that needs it.
AuthoritativeSource(h) ==
    CASE h = "a1" -> "u1"
      [] h = "a2" -> "u2"
      [] h = "s1" -> "u3"

\* The assets the ports of a project's manifest need: what the installer
\* run on that manifest can name in its output.
AssetsOf(p) ==
    CASE p = "p1" -> {"a1", "s1"}
      [] p = "p2" -> {"a1", "a2"}

(***************************************************************************)
(* calc_file_hash: the sha1 of a file's bytes.  Different contents have    *)
(* different digests; a digest is never the empty string.                  *)
(***************************************************************************)
calc_file_hash(content) ==
    CASE content = "c1" -> "h1"
      [] content = "c2" -> "h2"

(***************************************************************************)
(* Dicts.                                                                  *)
(***************************************************************************)
Keys(d) == {e[1] : e \in d}

\* d |= u : the entries of u replace those of d with the same key.
DictUpdate(d, u) == {e \in d : e[1] \notin Keys(u)} \cup u

(***************************************************************************)
(* AssetsInfo                                                              *)
(***************************************************************************)
\* AssetsInfo(): manifest_hash = '', assets = {}
NewAssetsInfo == [manifest_hash |-> "", assets |-> {}]

\* An info file of the cache directory: absent, or the JSON AssetsInfo.save
\* wrote, or (truncated) the beginning of it only.
NoInfoFile ==
    [exists |-> FALSE, truncated |-> FALSE, manifest_hash |-> "", assets |-> {}]

\* Mutant: the file is written in two steps, the manifest hash first and the
\* asset map after it, each step leaving a whole JSON text.
open_w_HashFirst ==
    [exists |-> TRUE, truncated |-> FALSE, manifest_hash |-> "h1", assets |-> {}]

\* file.open(mode='w'), the first step of AssetsInfo.save: the file is created
\* or cut to nothing, the JSON text is written after that.  Until the text is
\* whole the file holds a proper prefix of it, which is not JSON.
open_w ==
    [exists |-> TRUE, truncated |-> TRUE, manifest_hash |-> "", assets |-> {}]

\* AssetsInfo.save: json.dump(self.__dict__)
save(assets_info) ==
    [exists |-> TRUE,
     truncated |-> FALSE,
     manifest_hash |-> assets_info.manifest_hash,
     assets |-> assets_info.assets]

\* AssetsInfo._load_data_from_file: the dict read from the file, with the
\* keys it holds; {} for an absent file when missing_ok, else the
\* FileNotFoundError; json.load raises JSONDecodeError on a text that is not
\* JSON.
_load_data_from_file(file, missing_ok) ==
    IF ~file.exists
    THEN IF missing_ok
         THEN [raised |-> "none", keys |-> {}, manifest_hash |-> "", assets |-> {}]
         ELSE [raised |-> "FileNotFoundError", keys |-> {},
               manifest_hash |-> "", assets |-> {}]
    ELSE IF file.truncated
    THEN [raised |-> "JSONDecodeError", keys |-> {},
          manifest_hash |-> "", assets |-> {}]
    ELSE [raised |-> "none", keys |-> {"manifest_hash", "assets"},
          manifest_hash |-> file.manifest_hash, assets |-> file.assets]

\* AssetsInfo.load_from_file: __dict__ |= loaded data.
load_from_file(file, missing_ok) ==
    LET data == _load_data_from_file(file, missing_ok)
    IN  [raised |-> data.raised,
         manifest_hash |-> IF "manifest_hash" \in data.keys
                           THEN data.manifest_hash
                           ELSE NewAssetsInfo.manifest_hash,
         assets |-> IF "assets" \in data.keys
                    THEN data.assets
                    ELSE NewAssetsInfo.assets]

\* AssetsInfo.load_from_files: assets |= loaded_data['assets'] for each file
\* in turn; the first exception ends the loop.
RECURSIVE load_from_files_loop(_, _, _)
load_from_files_loop(files, missing_ok, acc) ==
    IF files = <<>> \/ acc.raised # "none"
    THEN acc
    ELSE LET data == _load_data_from_file(Head(files), missing_ok)
         IN  load_from_files_loop(
                 Tail(files), missing_ok,
                 IF data.raised # "none"
                 THEN [acc EXCEPT !.raised = data.raised]
                 ELSE IF "assets" \notin data.keys
                 THEN [acc EXCEPT !.raised = "KeyError"]
                 ELSE [acc EXCEPT !.assets = DictUpdate(acc.assets, data.assets)])

load_from_files(files, missing_ok) ==
    load_from_files_loop(
        files, missing_ok,
        [raised |-> "none", manifest_hash |-> NewAssetsInfo.manifest_hash,
         assets |-> NewAssetsInfo.assets])

\* Mutant: the update replaces the asset map.
update_info_Replace(assets_info, update) ==
    [assets_info EXCEPT !.assets = update]

\* AssetsInfo.update_info
update_info(assets_info, update) ==
    [assets_info EXCEPT !.assets = DictUpdate(assets_info.assets, update)]

(***************************************************************************)
(* The state.                                                              *)
(***************************************************************************)
VARIABLES
    MANIFEST_DIR,     \* [is_dir, files]: files[p] is the content of p.json
    ASSET_CACHE_DIR,  \* [is_dir, blobs, info]: blobs is the set of the names
                      \* of the files that are not info files, info[p] is
                      \* the file _p.json
    pc,               \* where the running program is
    manifests,        \* download_assets: the manifests still to be processed
    downloader,       \* download_manifest_assets: the AssetDownloader, with
                      \* the vcpkg.json of its work directory
    outcome,          \* the last download(): what the installer printed, its
                      \* exit code, and what download() ended with
    state,            \* show_assets_state, cleanup_assets: the AssetsState
    console,          \* what the program printed: the headings of the lists
                      \* of print_items, the 'Deleted files' list and the
                      \* exit message
    call,             \* a direct call of AssetsInfo.load_from_files: its
                      \* arguments and what it returned (LoadSpec only)
    replaced          \* history (HistorySpec only): the asset hashes named by
                      \* the info file that the downloader's prepare unlinked

vars == <<MANIFEST_DIR, ASSET_CACHE_DIR, pc, manifests, downloader,
          outcome, state, console, call, replaced>>

disk == <<MANIFEST_DIR, ASSET_CACHE_DIR>>

(***************************************************************************)
(* Files.                                                                  *)
(***************************************************************************)
\* ASSET_CACHE_DIR.glob('*'), files only.
CacheDirFiles ==
    ASSET_CACHE_DIR.blobs
        \cup {InfoFileName(p) : p \in {q \in Projects : ASSET_CACHE_DIR.info[q].exists}}

\* (ASSET_CACHE_DIR / name).is_file()
is_file(name) == name \in CacheDirFiles

\* get_manifest_files: the manifests of MANIFEST_DIR, by project name.
get_manifest_files == {p \in Projects : MANIFEST_DIR.files[p] # NoFile}

\* A set of projects as the list the directory listing gives.
Listed(S) ==
    LET Test(p) == p \in S
    IN  SelectSeq(ListingOrder, Test)

(***************************************************************************)
(* AssetsState                                                             *)
(***************************************************************************)
\* re.fullmatch(r'[0-9a-f]{128}', file.name)
_is_asset_file(name) == name \in HexNames /\ NameLen(name) = AssetHashLen

\* re.fullmatch(r'_(.*)\.json', file.name): the project name, "" for None.
_get_project_name_from_info_file(name) ==
    IF \E p \in Projects : InfoFileName(p) = name
    THEN CHOOSE p \in Projects : InfoFileName(p) = name
    ELSE ""

_is_info_file(name) == _get_project_name_from_info_file(name) # ""

\* Mutant: the files left by the first partition are returned as the other
\* files, the info files among them.
_get_asset_cache_dir_files_OtherKeepsInfo ==
    LET files == CacheDirFiles
        asset_files == {f \in files : _is_asset_file(f)}
        rest == files \ asset_files
    IN  [asset_files |-> asset_files,
         info_files |-> {f \in rest : _is_info_file(f)},
         other_files |-> rest]

\* partition_by_predicate, twice.
_get_asset_cache_dir_files ==
    LET files == CacheDirFiles
        asset_files == {f \in files : _is_asset_file(f)}
        rest == files \ asset_files
        info_files == {f \in rest : _is_info_file(f)}
    IN  [asset_files |-> asset_files,
         info_files |-> info_files,
         other_files |-> rest \ info_files]

\* list.remove(x) raises ValueError when x is not in the list.
RemoveRaises(list, removed) == ~(removed \subseteq list)

\* Mutant: the info file of every manifest that has one is good, whatever
\* manifest_hash it stores.
_categorize_info_files_NoHashCheck(info_files) ==
    LET with_file == {p \in get_manifest_files : is_file(InfoFileName(p))}
        good == {InfoFileName(p) : p \in with_file}
    IN  [raised |-> IF RemoveRaises(info_files, good) THEN "ValueError" ELSE "none",
         good_info_files |-> good,
         outdated_info_files |-> {},
         missing_info_files |->
             {InfoFileName(p) : p \in get_manifest_files \ with_file},
         extra_info_files |-> info_files \ good]

\* The loop over the manifests ends with the first exception: of
\* load_from_file, or of rest_info_files.remove.
_categorize_info_files(info_files) ==
    LET manifest_files == get_manifest_files
        with_file == {p \in manifest_files : is_file(InfoFileName(p))}
        loaded(p) == load_from_file(ASSET_CACHE_DIR.info[p], FALSE)
        is_good(p) ==
            calc_file_hash(MANIFEST_DIR.files[p]) = loaded(p).manifest_hash
        good == {InfoFileName(p) : p \in {q \in with_file : is_good(q)}}
        outdated == {InfoFileName(p) : p \in {q \in with_file : ~is_good(q)}}
        failed == {p \in with_file : loaded(p).raised # "none"}
    IN  [raised |-> IF failed # {}
                    THEN loaded(CHOOSE p \in failed : TRUE).raised
                    ELSE IF RemoveRaises(info_files, good \cup outdated)
                    THEN "ValueError" ELSE "none",
         good_info_files |-> good,
         outdated_info_files |-> outdated,
         missing_info_files |->
             {InfoFileName(p) : p \in manifest_files \ with_file},
         extra_info_files |-> info_files \ (good \cup outdated)]

\* Mutant: rest_asset_files.remove replaced by a removal that ignores a file
\* that is not in the list.
_categorize_asset_files_Discard(asset_files, assets_info) ==
    LET hashes == Keys(assets_info.assets)
        on_disk == {h \in hashes : is_file(h)}
    IN  [raised |-> "none",
         good_asset_files |-> on_disk,
         missing_asset_files |-> hashes \ on_disk,
         extra_asset_files |-> asset_files \ on_disk]

_categorize_asset_files(asset_files, assets_info) ==
    LET hashes == Keys(assets_info.assets)
        on_disk == {h \in hashes : is_file(h)}
    IN  [raised |-> IF RemoveRaises(asset_files, on_disk)
                    THEN "ValueError" ELSE "none",
         good_asset_files |-> on_disk,
         missing_asset_files |-> hashes \ on_disk,
         extra_asset_files |-> asset_files \ on_disk]

\* No AssetsState: before gen_assets_state, or when it did not return.
NoState(error) ==
    [error |-> error,
     asset_files |-> {}, good_asset_files |-> {}, missing_asset_files |-> {},
     extra_asset_files |-> {},
     info_files |-> {}, good_info_files |-> {}, outdated_info_files |-> {},
     missing_info_files |-> {}, extra_info_files |-> {},
     other_files |-> {},
     good_assets_info |-> NewAssetsInfo]

\* The info files of a list of info file names.
InfoFilesOf(names) ==
    LET ps == Listed({p \in Projects : InfoFileName(p) \in names})
    IN  [i \in 1..Len(ps) |-> ASSET_CACHE_DIR.info[ps[i]]]

\* Mutant: the trusted asset map is loaded from the outdated info files too.
TrustedInfoFiles_WithOutdated(categorized) ==
    categorized.good_info_files \cup categorized.outdated_info_files

\* gen_assets_state: the info files whose assets are trusted.
TrustedInfoFiles(categorized) == categorized.good_info_files

\* gen_assets_state once both directories are there: the listing, the two
\* categorizations, and the AssetsState made of them.  error is "none" when
\* a state is returned, else the exception that ended the call.
categorized_state ==
    LET files == _get_asset_cache_dir_files
        infos == _categorize_info_files(files.info_files)
        good_assets_info ==
            load_from_files(InfoFilesOf(TrustedInfoFiles(infos)), FALSE)
        assets == _categorize_asset_files(files.asset_files, good_assets_info)
    IN  IF infos.raised # "none" THEN NoState(infos.raised)
        ELSE IF good_assets_info.raised # "none" THEN NoState(good_assets_info.raised)
        ELSE IF assets.raised # "none" THEN NoState(assets.raised)
        ELSE [error |-> "none",
              asset_files |-> files.asset_files,
              good_asset_files |-> assets.good_asset_files,
              missing_asset_files |-> assets.missing_asset_files,
              extra_asset_files |-> assets.extra_asset_files,
              info_files |-> files.info_files,
              good_info_files |-> infos.good_info_files,
              outdated_info_files |-> infos.outdated_info_files,
              missing_info_files |-> infos.missing_info_files,
              extra_info_files |-> infos.extra_info_files,
              other_files |-> files.other_files,
              good_assets_info |->
                  [manifest_hash |-> good_assets_info.manifest_hash,
                   assets |-> good_assets_info.assets]]

\* Mutant: no test of the manifest directory.
gen_assets_state_NoManifestDirCheck ==
    IF ~ASSET_CACHE_DIR.is_dir THEN NoState("error (asset cache dir not found)")
    ELSE categorized_state

\* AssetsState.gen_assets_state.  error is "none" when it returns a state,
\* else the sys.exit message or the exception that ended it.
gen_assets_state ==
    IF ~ASSET_CACHE_DIR.is_dir THEN NoState("error (asset cache dir not found)")
    ELSE IF ~MANIFEST_DIR.is_dir THEN NoState("error (manifest dir not found)")
    ELSE categorized_state

(***************************************************************************)
(* The program's locals when they hold nothing.                            *)
(***************************************************************************)
NoDownloader ==
    [project_name |-> "", vcpkg_json |-> NoFile, assets_info |-> NewAssetsInfo]

NoOutcome ==
    [result |-> "", exit_code |-> 0, output_text |-> <<>>,
     asset_hash |-> "", asset_url |-> ""]

NoConsole ==
    [operation |-> "", exit_message |-> "", deleted |-> {}, printed |-> {}]

\* No call of load_from_files.
NoCall == [files |-> <<>>, missing_ok |-> FALSE, returned |-> FALSE,
           raised |-> "none", assets |-> {}]

\* sys.exit(error_message), or the end of main: the process is over.
Exit(operation, message, deleted, printed) ==
    /\ pc' = "exited"
    /\ console' = [operation |-> operation, exit_message |-> message,
                   deleted |-> deleted, printed |-> printed]

(***************************************************************************)
(* Init: a fresh workspace, before or after vcpkg_setup.py created the     *)
(* workspace directories; the program is at its menu.                      *)
(***************************************************************************)
Init ==
    /\ MANIFEST_DIR \in
           {[is_dir |-> d, files |-> [p \in Projects |-> NoFile]] : d \in BOOLEAN}
    /\ ASSET_CACHE_DIR \in
           {[is_dir |-> d, blobs |-> {}, info |-> [p \in Projects |-> NoInfoFile]]
               : d \in BOOLEAN}
    /\ pc = "menu"
    /\ manifests = <<>>
    /\ downloader = NoDownloader
    /\ outcome = NoOutcome
    /\ state = NoState("unset")
    /\ console = NoConsole
    /\ call = NoCall
    /\ replaced = {}

(***************************************************************************)
(* The environment: the operator's own changes to the directories.         *)
(***************************************************************************)
\* vcpkg_setup.py, create_workspace_dirs.
create_workspace_dirs ==
    /\ pc = "menu"
    /\ ~MANIFEST_DIR.is_dir \/ ~ASSET_CACHE_DIR.is_dir
    /\ MANIFEST_DIR' = [MANIFEST_DIR EXCEPT !.is_dir = TRUE]
    /\ ASSET_CACHE_DIR' = [ASSET_CACHE_DIR EXCEPT !.is_dir = TRUE]
    /\ UNCHANGED <<pc, manifests, downloader, outcome, state, console, call, replaced>>

\* The operator writes, edits or deletes the manifest of project p: between
\* two runs of the program, or while prepare works on p.  (The download reads
\* no other manifest, and none once prepare is over: a change made at another
\* time of the download is a change made before or after it.)
EditManifest(p, content) ==
    /\ \/ pc = "menu"
       \/ pc \in {"copy", "init"} /\ p = downloader.project_name
    /\ MANIFEST_DIR.is_dir
    /\ MANIFEST_DIR.files[p] # content
    /\ MANIFEST_DIR' = [MANIFEST_DIR EXCEPT !.files[p] = content]
    /\ UNCHANGED <<ASSET_CACHE_DIR, pc, manifests, downloader, outcome,
                   state, console, call, replaced>>

\* The operator puts a file into the cache directory, or deletes one.
PutCacheFile(name) ==
    /\ pc = "menu"
    /\ ASSET_CACHE_DIR.is_dir
    /\ name \notin ASSET_CACHE_DIR.blobs
    /\ ASSET_CACHE_DIR' = [ASSET_CACHE_DIR EXCEPT !.blobs = @ \cup {name}]
    /\ UNCHANGED <<MANIFEST_DIR, pc, manifests, downloader, outcome,
                   state, console, call, replaced>>

RemoveCacheFile(name) ==
    /\ pc = "menu"
    /\ name \in ASSET_CACHE_DIR.blobs
    /\ ASSET_CACHE_DIR' = [ASSET_CACHE_DIR EXCEPT !.blobs = @ \ {name}]
    /\ UNCHANGED <<MANIFEST_DIR, pc, manifests, downloader, outcome,
                   state, console, call, replaced>>

(***************************************************************************)
(* main: a new run of the program shows the menu.                          *)
(***************************************************************************)
main ==
    /\ pc = "exited"
    /\ pc' = "menu"
    /\ manifests' = <<>>
    /\ downloader' = NoDownloader
    /\ outcome' = NoOutcome
    /\ state' = NoState("unset")
    /\ console' = NoConsole
    /\ replaced' = {}
    /\ UNCHANGED <<disk, call>>

(***************************************************************************)
(* state                                                                   *)
(***************************************************************************)
\* AssetsState.print_items: nothing for an empty list, else the heading
\* f'{desc} ({len(items)}):' and the items.
print_items(items, desc) == IF items = {} THEN {} ELSE {desc}

\* show_assets_state: the lists it prints, each under the print_hr heading of
\* its group.
printed_state(st) ==
    print_items(st.good_asset_files, "Good: Assets")
        \cup print_items(st.good_info_files, "Good: Projects")
        \cup print_items(st.missing_asset_files, "To process: Missing assets")
        \cup print_items(st.missing_info_files, "To process: New projects")
        \cup print_items(st.outdated_info_files, "To process: Outdated projects")
        \cup print_items(st.extra_asset_files, "To delete: Assets")
        \cup print_items(st.extra_info_files, "To delete: Info files")
        \cup print_items(st.other_files, "To delete: Other files")

\* Mutant: the reconciliation removes the other files it finds.
show_assets_state_Prunes ==
    /\ pc = "menu"
    /\ state' = gen_assets_state
    /\ Exit("state", state'.error, {}, printed_state(state'))
    /\ ASSET_CACHE_DIR' = [ASSET_CACHE_DIR EXCEPT !.blobs = @ \ state'.other_files]
    /\ UNCHANGED <<MANIFEST_DIR, manifests, downloader, outcome, call, replaced>>

show_assets_state ==
    /\ pc = "menu"
    /\ state' = gen_assets_state
    /\ Exit("state", state'.error, {}, printed_state(state'))
    /\ UNCHANGED <<disk, manifests, downloader, outcome, call, replaced>>

(***************************************************************************)
(* cleanup                                                                 *)
(***************************************************************************)
\* Mutant: the outdated info files do not block the cleanup.
files_to_process_NoOutdated(st) ==
    st.missing_asset_files \cup st.missing_info_files

files_to_process(st) ==
    st.missing_asset_files \cup st.missing_info_files \cup st.outdated_info_files

\* Mutant: the other files are left alone.
files_to_delete_NoOther(st) ==
    st.extra_asset_files \cup st.extra_info_files

files_to_delete(st) ==
    st.extra_asset_files \cup st.extra_info_files \cup st.other_files

\* Mutant: only the files that are not info files are unlinked.
unlink_KeepsInfoFiles(files) ==
    [ASSET_CACHE_DIR EXCEPT !.blobs = @ \ files]

\* file.unlink() for each of the files: the cache directory without them.
unlink(files) ==
    [ASSET_CACHE_DIR EXCEPT
        !.blobs = @ \ files,
        !.info = [p \in Projects |->
                     IF InfoFileName(p) \in files THEN NoInfoFile ELSE @[p]]]

cleanup_assets ==
    /\ pc = "menu"
    /\ state' = gen_assets_state
    /\ IF state'.error # "none"
       THEN /\ Exit("cleanup", state'.error, {}, {})
            /\ UNCHANGED ASSET_CACHE_DIR
       ELSE IF files_to_process(state') # {}
       THEN /\ Exit("cleanup", "Error: there are files to process", {}, {})
            /\ UNCHANGED ASSET_CACHE_DIR
       ELSE IF files_to_delete(state') = {}
       THEN /\ Exit("cleanup", "No files to delete", {}, {})
            /\ UNCHANGED ASSET_CACHE_DIR
       ELSE /\ ASSET_CACHE_DIR' = unlink(files_to_delete(state'))
            /\ Exit("cleanup", "", files_to_delete(state'),
                    print_items(files_to_delete(state'), "Deleted files"))
    /\ UNCHANGED <<MANIFEST_DIR, manifests, downloader, outcome, call, replaced>>

(***************************************************************************)
(* The installer's output.  A line is one of                               *)
(*   success  "... using asset cache <dir>/<hash> ... authoritative source *)
(*            <url>"          (matches _OUTPUT_ASSET_SUCCESS_PATTERN)      *)
(*   missing  "Couldn't open file <dir>/<hash> ... authoritative source    *)
(*            <url>"          (matches _OUTPUT_ASSET_MISSING_PATTERN)      *)
(* with <hash> any string of the characters 0-9a-f.  The text between and  *)
(* around these lines matches neither pattern and is left out.             *)
(***************************************************************************)
OutputLines(p) ==
    {[kind |-> k, hash |-> h, url |-> AuthoritativeSource(h)]
        : k \in {"success", "missing"}, h \in AssetsOf(p)}

OutputTexts(p) == UNION {[1..n -> OutputLines(p)] : n \in 0..MaxOutputLines}

\* The installer's exit codes.
ExitCodes == {0, 1}

\* Mutant: only the first success line is recorded.
_extract_downloaded_assets_info_First(output_text) ==
    LET matches == SelectSeq(output_text, LAMBDA line : line.kind = "success")
    IN  IF matches = <<>> THEN {}
        ELSE {<<matches[1].hash, matches[1].url>>}

\* AssetDownloader._extract_downloaded_assets_info: downloaded_info[sha512] =
\* url for every match, in the order of the text.
RECURSIVE _extract_downloaded_assets_info(_)
_extract_downloaded_assets_info(output_text) ==
    IF output_text = <<>> THEN {}
    ELSE LET n == Len(output_text)
             line == output_text[n]
             before == _extract_downloaded_assets_info(SubSeq(output_text, 1, n - 1))
         IN  IF line.kind = "success"
             THEN DictUpdate(before, {<<line.hash, line.url>>})
             ELSE before

\* No match: None.
NoMatch == [found |-> FALSE, sha512 |-> "", url |-> ""]

\* Mutant: the last match instead of the first.
_extract_missed_asset_info_Last(output_text) ==
    LET matches == SelectSeq(output_text, LAMBDA line : line.kind = "missing")
    IN  IF matches = <<>> THEN NoMatch
        ELSE [found |-> TRUE, sha512 |-> matches[Len(matches)].hash,
              url |-> matches[Len(matches)].url]

\* AssetDownloader._extract_missed_asset_info: re.search, the first match.
_extract_missed_asset_info(output_text) ==
    LET matches == SelectSeq(output_text, LAMBDA line : line.kind = "missing")
    IN  IF matches = <<>> THEN NoMatch
        ELSE [found |-> TRUE, sha512 |-> matches[1].hash, url |-> matches[1].url]

\* AssetDownloader._handle_download_error: the exception it raises.
_handle_download_error(output_text) ==
    LET messed_asset_info == _extract_missed_asset_info(output_text)
    IN  IF messed_asset_info.found
        THEN [result |-> "MISSING_ASSET",
              asset_hash |-> messed_asset_info.sha512,
              asset_url |-> messed_asset_info.url]
        ELSE [result |-> "FAILED", asset_hash |-> "", asset_url |-> ""]

\* Mutant: the info file is written before the exit code is looked at.
SavesInfoFile_Always(exit_code) == TRUE

\* AssetDownloader.download: self._assets_info.save is reached only when
\* _handle_download_error was not called.
SavesInfoFile(exit_code) == exit_code = 0

\* AssetDownloader.download: how the call ends.
download_result(output_text, exit_code) ==
    IF exit_code # 0
    THEN _handle_download_error(output_text)
    ELSE [result |-> "SUCCESS", asset_hash |-> "", asset_url |-> ""]

(***************************************************************************)
(* download                                                                *)
(***************************************************************************)
\* Mutant: a failed download is skipped and the loop of download_assets goes
\* on with the next manifest.
download_manifest_assets_SkipsFailed(result) ==
    CASE result = "SUCCESS" -> "return"
      [] result = "FAILED" -> "return"
      [] result = "MISSING_ASSET" -> "ask"

\* Mutant: a retry is offered after a failure too.
download_manifest_assets_RetriesFailed(result) ==
    CASE result = "SUCCESS" -> "return"
      [] result = "FAILED" -> "ask"
      [] result = "MISSING_ASSET" -> "ask"

\* download_manifest_assets: what its loop does when download() ended with
\* result: return to download_assets, stop the program, or ask the operator.
download_manifest_assets(result) ==
    CASE result = "SUCCESS" -> "return"
      [] result = "FAILED" -> "stop"
      [] result = "MISSING_ASSET" -> "ask"

\* select_manifests: ALL, or one manifest.
Selections ==
    {Listed(get_manifest_files)} \cup {<<p>> : p \in get_manifest_files}

\* download_assets up to the first download_manifest_assets.
download_assets ==
    /\ pc = "menu"
    /\ IF ~MANIFEST_DIR.is_dir
       THEN /\ Exit("download", "Error: manifests dir not found", {}, {})
            /\ UNCHANGED manifests
       ELSE IF get_manifest_files = {}
       THEN /\ Exit("download", "Error: manifest files not found", {}, {})
            /\ UNCHANGED manifests
       ELSE /\ \E selection \in Selections : manifests' = selection
            /\ pc' = "prepare"
            /\ console' = [console EXCEPT !.operation = "download"]
    /\ UNCHANGED <<disk, downloader, outcome, state, call, replaced>>

\* download_manifest_assets(manifests[1]): AssetDownloader(manifest), and of
\* prepare _cleanup and _ensure_dirs.
prepare_step ==
    /\ pc = "prepare"
    /\ LET project_name == Head(manifests)
       IN  /\ downloader' = [project_name |-> project_name,
                             vcpkg_json |-> NoFile,
                             assets_info |-> NewAssetsInfo]
           /\ ASSET_CACHE_DIR' =
                  [ASSET_CACHE_DIR EXCEPT !.is_dir = TRUE,
                                          !.info[project_name] = NoInfoFile]
    /\ pc' = "copy"
    /\ outcome' = NoOutcome
    /\ UNCHANGED <<MANIFEST_DIR, manifests, state, console, call>>

prepare == prepare_step /\ UNCHANGED replaced

\* prepare, with the history of what _cleanup unlinked.
prepare_recorded ==
    /\ prepare_step
    /\ replaced' = Keys(ASSET_CACHE_DIR.info[Head(manifests)].assets)

\* AssetDownloader._copy_manifest_file
_copy_manifest_file ==
    /\ pc = "copy"
    /\ LET manifest == MANIFEST_DIR.files[downloader.project_name]
       IN  IF manifest = NoFile
           THEN /\ Exit("download", "FileNotFoundError", {}, {})
                /\ UNCHANGED downloader
           ELSE /\ downloader' = [downloader EXCEPT !.vcpkg_json = manifest]
                /\ pc' = "init"
                /\ UNCHANGED console
    /\ UNCHANGED <<disk, manifests, outcome, state, call, replaced>>

\* AssetDownloader._init_assets_info
_init_assets_info ==
    /\ pc = "init"
    /\ LET manifest == MANIFEST_DIR.files[downloader.project_name]
       IN  IF manifest = NoFile
           THEN /\ Exit("download", "FileNotFoundError", {}, {})
                /\ UNCHANGED downloader
           ELSE /\ downloader' =
                       [downloader EXCEPT
                           !.assets_info.manifest_hash = calc_file_hash(manifest)]
                /\ pc' = "download"
                /\ UNCHANGED console
    /\ UNCHANGED <<disk, manifests, outcome, state, call, replaced>>

\* The assets the installer names in a success line are in the asset cache
\* when it exits: it read them from there, or stored them there (readwrite,
\* see setup_vcpkg_environment).
StoredAssets(output_text) ==
    {output_text[i].hash :
        i \in {j \in 1..Len(output_text) : output_text[j].kind = "success"}}

\* One pass of the loop of download_manifest_assets: downloader.download() and
\* what the loop does with its result.  The installer prints output_text and
\* exits with exit_code.
download ==
    /\ pc = "download"
    /\ \E output_text \in OutputTexts(downloader.project_name), exit_code \in ExitCodes :
          LET project_name == downloader.project_name
              assets_info ==
                  update_info(downloader.assets_info,
                              _extract_downloaded_assets_info(output_text))
              ended == download_result(output_text, exit_code)
              cache == [ASSET_CACHE_DIR EXCEPT
                            !.blobs = @ \cup StoredAssets(output_text)]
          IN  /\ downloader' = [downloader EXCEPT !.assets_info = assets_info]
              /\ ASSET_CACHE_DIR' =
                     IF SavesInfoFile(exit_code)
                     THEN [cache EXCEPT !.info[project_name] = save(assets_info)]
                     ELSE cache
              /\ outcome' = [result |-> ended.result,
                             exit_code |-> exit_code,
                             output_text |-> output_text,
                             asset_hash |-> ended.asset_hash,
                             asset_url |-> ended.asset_url]
              /\ CASE download_manifest_assets(ended.result) = "return" ->
                          /\ manifests' = Tail(manifests)
                          /\ IF Tail(manifests) = <<>>
                             THEN Exit("download", "Done", {}, {})
                             ELSE /\ pc' = "prepare"
                                  /\ UNCHANGED console
                   [] download_manifest_assets(ended.result) = "stop" ->
                          /\ Exit("download", "Finished with an ERROR (see log)", {}, {})
                          /\ UNCHANGED manifests
                   [] download_manifest_assets(ended.result) = "ask" ->
                          /\ pc' = "ask"
                          /\ UNCHANGED <<manifests, console>>
    /\ UNCHANGED <<MANIFEST_DIR, state, call, replaced>>

\* Mutant: a repeat starts download_manifest_assets again, with a new
\* AssetDownloader and its prepare.
user_wants_to_repeat_Reprepares ==
    /\ pc = "ask"
    /\ \E repeat \in BOOLEAN :
          IF repeat
          THEN /\ pc' = "prepare"
               /\ outcome' = NoOutcome
               /\ UNCHANGED console
          ELSE /\ Exit("download", "Download aborted", {}, {})
               /\ UNCHANGED outcome
    /\ UNCHANGED <<disk, manifests, downloader, state, call, replaced>>

\* user_wants_to_repeat: the operator's answer.
user_wants_to_repeat ==
    /\ pc = "ask"
    /\ \E repeat \in BOOLEAN :
          IF repeat
          THEN /\ pc' = "download"
               /\ outcome' = NoOutcome
               /\ UNCHANGED console
          ELSE /\ Exit("download", "Download aborted", {}, {})
               /\ UNCHANGED outcome
    /\ UNCHANGED <<disk, manifests, downloader, state, call, replaced>>

\* The process dies during a download (it is killed, the machine stops, the
\* operator presses Ctrl-C): between two steps, or inside download() while
\* the installer runs (it printed output_text so far), or inside
\* AssetsInfo.save after the installer has exited with code 0, when the info
\* file is open for writing and its text is not whole.  What the process had
\* in memory is gone; of the downloader only the name of the project it
\* worked on is kept (none between two manifests).
Crash ==
    /\ pc \in {"prepare", "copy", "init", "download", "ask"}
    /\ IF pc = "download"
       THEN \E output_text \in OutputTexts(downloader.project_name),
               in_save \in BOOLEAN :
               LET cache == [ASSET_CACHE_DIR EXCEPT
                                !.blobs = @ \cup StoredAssets(output_text)]
               IN  ASSET_CACHE_DIR' =
                       IF in_save
                       THEN [cache EXCEPT !.info[downloader.project_name] = open_w]
                       ELSE cache
       ELSE UNCHANGED ASSET_CACHE_DIR
    /\ Exit("download", "crash", {}, {})
    /\ downloader' =
           [NoDownloader EXCEPT
               !.project_name = IF pc = "prepare" THEN "" ELSE downloader.project_name]
    /\ outcome' = NoOutcome
    /\ UNCHANGED <<MANIFEST_DIR, manifests, state, call, replaced>>

(***************************************************************************)
(* The specification.                                                      *)
(***************************************************************************)
Others ==
    \/ create_workspace_dirs
    \/ \E p \in Projects, content \in ManifestContents \cup {NoFile} :
          EditManifest(p, content)
    \/ \E name \in HexNames \cup OtherNames : PutCacheFile(name)
    \/ \E name \in HexNames \cup OtherNames : RemoveCacheFile(name)
    \/ main
    \/ show_assets_state
    \/ cleanup_assets
    \/ download_assets
    \/ _copy_manifest_file
    \/ _init_assets_info
    \/ download
    \/ user_wants_to_repeat
    \/ Crash

Next == Others \/ prepare

Spec == Init /\ [][Next]_vars

\* The same program, with the history variable kept.
HistoryNext == Others \/ prepare_recorded

HistorySpec == Init /\ [][HistoryNext]_vars

(***************************************************************************)
(* AssetsInfo.load_from_files called directly, on any list of info files   *)
(* and with either value of missing_ok.  The files are absent, truncated,  *)
(* or hold any asset map over two hashes and two URLs, so that two files   *)
(* can give the same hash different URLs.                                  *)
(***************************************************************************)
AssetDicts ==
    {d \in SUBSET ({"a1", "a2"} \X {"u1", "u2"}) :
        \A e1, e2 \in d : e1[1] = e2[1] => e1 = e2}

LoadableFiles ==
    {NoInfoFile, open_w}
        \cup {save([manifest_hash |-> "h1", assets |-> d]) : d \in AssetDicts}

FileLists == UNION {[1..n -> LoadableFiles] : n \in 0..MaxFiles}

LoadInit ==
    /\ MANIFEST_DIR = [is_dir |-> FALSE, files |-> [p \in Projects |-> NoFile]]
    /\ ASSET_CACHE_DIR =
           [is_dir |-> FALSE, blobs |-> {}, info |-> [p \in Projects |-> NoInfoFile]]
    /\ pc = "call"
    /\ manifests = <<>>
    /\ downloader = NoDownloader
    /\ outcome = NoOutcome
    /\ state = NoState("unset")
    /\ console = NoConsole
    /\ call \in {[NoCall EXCEPT !.files = files, !.missing_ok = missing_ok]
                    : files \in FileLists, missing_ok \in BOOLEAN}
    /\ replaced = {}

\* assets_info = AssetsInfo.load_from_files(files, missing_ok=missing_ok)
CallLoadFromFiles ==
    /\ pc = "call"
    /\ ~call.returned
    /\ LET assets_info == load_from_files(call.files, call.missing_ok)
       IN  call' = [call EXCEPT !.returned = TRUE,
                                !.raised = assets_info.raised,
                                !.assets = assets_info.assets]
    /\ UNCHANGED <<MANIFEST_DIR, ASSET_CACHE_DIR, pc, manifests, downloader,
                   outcome, state, console, replaced>>

LoadNext == CallLoadFromFiles

LoadSpec == LoadInit /\ [][LoadNext]_vars

(***************************************************************************)
(* What the properties below speak of.                                     *)
(***************************************************************************)
\* The program ran operation op and is over.
Ran(op) == pc = "exited" /\ console.operation = op

\* A step of cleanup_assets.
CleanupStep == pc = "menu" /\ pc' = "exited" /\ console'.operation = "cleanup"

\* The projects whose manifest exists.
WithManifest == {p \in Projects : MANIFEST_DIR.files[p] # NoFile}

\* The projects whose info file exists.
WithInfoFile == {p \in Projects : ASSET_CACHE_DIR.info[p].exists}

\* The projects whose info file stores the hash of the manifest as it is now.
UpToDate ==
    {p \in WithManifest \cap WithInfoFile :
        ASSET_CACHE_DIR.info[p].manifest_hash = calc_file_hash(MANIFEST_DIR.files[p])}

\* The asset hashes the info files of the projects ps name.
AssetKeys(ps) == UNION {Keys(ASSET_CACHE_DIR.info[p].assets) : p \in ps}

\* The files cleanup_assets must not delete: the info file of every manifest
\* that exists, and the blobs the info files of the up-to-date projects name.
RequiredFiles ==
    {InfoFileName(p) : p \in WithManifest \cap WithInfoFile}
        \cup (ASSET_CACHE_DIR.blobs \cap AssetKeys(UpToDate))

\* The categories of an AssetsState.
ToProcess(st) ==
    st.missing_asset_files \cup st.missing_info_files \cup st.outdated_info_files

ToDelete(st) == st.extra_asset_files \cup st.extra_info_files \cup st.other_files

Listing(st) == st.asset_files \cup st.info_files \cup st.other_files

Categories(st) ==
    <<st.good_asset_files, st.missing_asset_files, st.extra_asset_files,
      st.good_info_files, st.outdated_info_files, st.missing_info_files,
      st.extra_info_files, st.other_files>>

PairwiseDisjoint(sets) ==
    \A i, j \in 1..Len(sets) : i < j => sets[i] \cap sets[j] = {}

\* A name of 128 characters 0-9a-f.
AssetShaped(name) == name \in HexNames /\ NameLen(name) = 128

\* The lines of an installer output that report a missing asset, and those
\* that report an asset served.
MissingLines(output_text) ==
    {i \in 1..Len(output_text) : output_text[i].kind = "missing"}

SuccessRecords(output_text) ==
    {<<output_text[i].hash, output_text[i].url>> :
        i \in {j \in 1..Len(output_text) : output_text[j].kind = "success"}}

(***************************************************************************)
(* C1 - C3: cleanup_assets                                                 *)
(***************************************************************************)
\* C1: cleanup_assets removes the files to delete iff the three 'to process'
\* categories (missing asset files, missing info files, outdated info files)
\* of its reconciliation are all empty; when one of them is not empty it
\* refuses and the cache directory is left as it was.  (It also removes
\* nothing when the reconciliation did not return.)
C1_PruneOnlyWhenNothingToProcess ==
    [][CleanupStep =>
          LET st == state'
              removed == CacheDirFiles \ CacheDirFiles'
          IN  /\ st.error # "none" => UNCHANGED disk
              /\ st.error = "none" /\ ToProcess(st) # {} =>
                    /\ UNCHANGED disk
                    /\ console'.exit_message = "Error: there are files to process"
                    /\ console'.deleted = {}
              /\ st.error = "none" /\ ToProcess(st) = {} => removed = ToDelete(st)
              /\ removed # {} => st.error = "none" /\ ToProcess(st) = {}]_vars

\* C1 witness: a cleanup that was refused although there were files to delete,
\* all of them still there.
C1_Witness ==
    /\ Ran("cleanup")
    /\ state.error = "none"
    /\ state.outdated_info_files # {}
    /\ state.extra_asset_files # {}
    /\ state.other_files # {}
    /\ ToDelete(state) \subseteq CacheDirFiles
    /\ console.exit_message = "Error: there are files to process"

\* C2: cleanup_assets never deletes a required file: the info file of a
\* manifest that exists, or a blob named by the info file of a manifest whose
\* stored manifest_hash is the manifest's current hash.  The required files
\* are still there, unchanged, after every cleanup.
C2_RequiredFilesSurviveCleanup ==
    [][CleanupStep =>
          /\ RequiredFiles \subseteq CacheDirFiles'
          /\ \A p \in WithManifest \cap WithInfoFile :
                ASSET_CACHE_DIR'.info[p] = ASSET_CACHE_DIR.info[p]]_vars

\* C2 witness: a cleanup deleted files and left required ones, among them a
\* blob and an info file.
C2_Witness ==
    /\ Ran("cleanup")
    /\ console.deleted # {}
    /\ ASSET_CACHE_DIR.blobs \cap AssetKeys(UpToDate) # {}
    /\ RequiredFiles \cap InfoNames # {}

\* C3: a cleanup_assets that is not refused deletes exactly the extra asset
\* files, the extra info files and the other files of the snapshot it
\* reconciled, reports exactly these as deleted, and leaves every other file
\* of the cache directory in place and unchanged.
C3_DeletesExactlyTheExtras ==
    [][CleanupStep /\ state'.error = "none" /\ ToProcess(state') = {} =>
          LET st == state'
          IN  /\ Listing(st) = CacheDirFiles
              /\ CacheDirFiles' = CacheDirFiles \ ToDelete(st)
              /\ console'.deleted = ToDelete(st)
              /\ st.good_asset_files \cup st.good_info_files \subseteq CacheDirFiles'
              /\ \A p \in Projects :
                    InfoFileName(p) \notin ToDelete(st) =>
                        ASSET_CACHE_DIR'.info[p] = ASSET_CACHE_DIR.info[p]
              /\ MANIFEST_DIR' = MANIFEST_DIR]_vars

\* C3 witness: a cleanup deleted an extra asset file, an extra info file and
\* another file, and kept a good asset file and a good info file.
C3_Witness ==
    /\ Ran("cleanup")
    /\ state.extra_asset_files # {}
    /\ state.extra_info_files # {}
    /\ state.other_files # {}
    /\ console.deleted = ToDelete(state)
    /\ console.deleted \cap CacheDirFiles = {}
    /\ state.good_asset_files # {}
    /\ state.good_info_files # {}
    /\ state.good_asset_files \cup state.good_info_files \subseteq CacheDirFiles

(***************************************************************************)
(* C4 - C7: AssetsState.gen_assets_state, as show_assets_state runs it.    *)
(* The directories are what they were when it ran.                         *)
(***************************************************************************)
\* C4 as stated: the eight category lists (good/missing/extra assets,
\* good/outdated/missing/extra info files, other) are pairwise disjoint and
\* their union is exactly the list of the files of the cache directory.
C4_CategoriesPartitionTheListing ==
    Ran("state") /\ state.error = "none" =>
        /\ PairwiseDisjoint(Categories(state))
        /\ UNION {Categories(state)[i] : i \in 1..8} = CacheDirFiles

\* C4 amended: the eight category lists are pairwise disjoint; the union of
\* the six lists of files found (good and extra assets, good, outdated and
\* extra info files, other) is exactly the list of the files of the cache
\* directory; the missing asset files and the missing info files are paths
\* that are not files of the cache directory.
C4_FoundCategoriesPartitionTheListing ==
    Ran("state") /\ state.error = "none" =>
        /\ PairwiseDisjoint(Categories(state))
        /\ state.good_asset_files \cup state.extra_asset_files
              \cup state.good_info_files \cup state.outdated_info_files
              \cup state.extra_info_files \cup state.other_files = CacheDirFiles
        /\ (state.missing_asset_files \cup state.missing_info_files)
              \cap CacheDirFiles = {}
        /\ state.asset_files = state.good_asset_files \cup state.extra_asset_files
        /\ state.info_files = state.good_info_files \cup state.outdated_info_files
                                  \cup state.extra_info_files

\* C4 witness: a reconciliation with good and extra asset files, a good info
\* file, another file, and a missing info file and a missing asset file.
C4_Witness ==
    /\ Ran("state")
    /\ state.error = "none"
    /\ state.good_asset_files # {}
    /\ state.extra_asset_files # {}
    /\ state.good_info_files # {}
    /\ state.other_files # {}
    /\ state.missing_info_files # {}
    /\ state.missing_asset_files # {}

\* C5: the info file _P.json is good iff the manifest P.json exists and the
\* file stores the hash of the manifest's current bytes; outdated iff the
\* manifest exists and the stored hash differs; P is missing iff the manifest
\* exists and the file does not; the file is extra iff it exists and there is
\* no manifest P.json.  Every manifest is in exactly one of good, outdated,
\* missing.
C5_InfoFileClassification ==
    Ran("state") /\ state.error = "none" =>
        \A p \in Projects :
            LET f == InfoFileName(p)
                manifest == MANIFEST_DIR.files[p]
                info == ASSET_CACHE_DIR.info[p]
                current == manifest # NoFile /\ info.exists
                               /\ info.manifest_hash = calc_file_hash(manifest)
            IN  /\ f \in state.good_info_files <=> current
                /\ f \in state.outdated_info_files <=>
                       manifest # NoFile /\ info.exists /\ ~current
                /\ f \in state.missing_info_files <=>
                       manifest # NoFile /\ ~info.exists
                /\ f \in state.extra_info_files <=>
                       manifest = NoFile /\ info.exists
                /\ manifest # NoFile =>
                       Cardinality({c \in {"good", "outdated", "missing"} :
                           f \in CASE c = "good" -> state.good_info_files
                                   [] c = "outdated" -> state.outdated_info_files
                                   [] c = "missing" -> state.missing_info_files}) = 1

\* C5 witness: a reconciliation with an outdated info file and an extra info
\* file, or with a good info file and a missing one.
C5_Witness ==
    /\ Ran("state")
    /\ state.error = "none"
    /\ \/ state.outdated_info_files # {} /\ state.extra_info_files # {}
       \/ state.good_info_files # {} /\ state.missing_info_files # {}
    /\ \E p \in Projects :
          /\ InfoFileName(p) \in state.outdated_info_files
          /\ ASSET_CACHE_DIR.info[p].manifest_hash = "h1"
          /\ MANIFEST_DIR.files[p] = "c2"

\* C6: every reconciliation of the two directories (whose info files are
\* whole) classifies: a file of the cache directory is in good_asset_files
\* iff its name is 128 characters 0-9a-f and is a key of the asset map of a
\* good info file, also when a good info file has a key that is not 128
\* characters long.
C6_GoodAssetFiles ==
    /\ Ran("state")
    /\ ASSET_CACHE_DIR.is_dir /\ MANIFEST_DIR.is_dir
    /\ \A p \in Projects : ~ASSET_CACHE_DIR.info[p].truncated
    =>
        /\ state.error = "none"
        /\ state.good_asset_files =
               {f \in CacheDirFiles : AssetShaped(f) /\ f \in AssetKeys(UpToDate)}

\* C7: the trusted asset map is the union of the asset maps of the good info
\* files only: a blob that only info files that are not good name (the info
\* file of an edited manifest, of a deleted one) is extra, not good, although
\* it is on disk.
C7_TrustedMapFromGoodInfoFilesOnly ==
    Ran("state") /\ state.error = "none" =>
        /\ state.good_assets_info.assets =
               UNION {ASSET_CACHE_DIR.info[p].assets : p \in UpToDate}
        /\ \A h \in ASSET_CACHE_DIR.blobs :
               AssetShaped(h) /\ h \notin AssetKeys(UpToDate) =>
                   h \in state.extra_asset_files /\ h \notin state.good_asset_files
        /\ \A h \in ASSET_CACHE_DIR.blobs :
               AssetShaped(h) /\ h \in AssetKeys(UpToDate) =>
                   h \in state.good_asset_files

\* C7 witness: the manifest of p1 was edited after its info file was written,
\* the info file is outdated and names blob a1, which is on disk and extra;
\* blob a2, named by the good info file of p2, is good.
C7_Witness ==
    /\ Ran("state")
    /\ state.error = "none"
    /\ InfoFileName("p1") \in state.outdated_info_files
    /\ "a1" \in Keys(ASSET_CACHE_DIR.info["p1"].assets)
    /\ "a1" \in ASSET_CACHE_DIR.blobs
    /\ "a1" \in state.extra_asset_files
    /\ InfoFileName("p2") \in state.good_info_files
    /\ "a2" \in state.good_asset_files

(***************************************************************************)
(* C8 - C10: the download.  outcome holds the installer's output and exit  *)
(* code of the last download() and what download() ended with, downloader  *)
(* the AssetDownloader that ran it.                                        *)
(***************************************************************************)
\* C8: download() ends by exit code and parsed output: exit code 0 gives
\* SUCCESS; another exit code with a missing-asset line gives MISSING_ASSET
\* with the hash and the URL of the first such line; another exit code with
\* no missing-asset line gives FAILED.  One of the three holds, and only one.
C8_OutcomeByExitCodeAndOutput ==
    outcome.result # "" =>
        LET missing == MissingLines(outcome.output_text)
            first == CHOOSE i \in missing : \A j \in missing : i <= j
        IN  /\ outcome.result \in {"SUCCESS", "MISSING_ASSET", "FAILED"}
            /\ outcome.result = "SUCCESS" <=> outcome.exit_code = 0
            /\ outcome.result = "MISSING_ASSET" <=>
                   outcome.exit_code # 0 /\ missing # {}
            /\ outcome.result = "FAILED" <=>
                   outcome.exit_code # 0 /\ missing = {}
            /\ outcome.result = "MISSING_ASSET" =>
                   /\ outcome.asset_hash = outcome.output_text[first].hash
                   /\ outcome.asset_url = outcome.output_text[first].url

\* C8 witness: the installer failed and reported two different missing
\* assets; the operator is asked about the first.
C8_Witness ==
    /\ pc = "ask"
    /\ outcome.result = "MISSING_ASSET"
    /\ Len(outcome.output_text) = 2
    /\ outcome.output_text[1].kind = "missing"
    /\ outcome.output_text[2].kind = "missing"
    /\ outcome.output_text[1].hash # outcome.output_text[2].hash
    /\ outcome.asset_hash = outcome.output_text[1].hash

\* C9 as stated: after every download(), whatever it ended with, the success
\* records of the installer output are merged into the manifest's metadata
\* and that metadata is in the manifest's info file on disk.
C9_InfoFileWrittenWhateverTheOutcome ==
    outcome.result # "" =>
        LET info == ASSET_CACHE_DIR.info[downloader.project_name]
        IN  /\ SuccessRecords(outcome.output_text) \subseteq downloader.assets_info.assets
            /\ info.exists
            /\ info.manifest_hash = downloader.assets_info.manifest_hash
            /\ info.assets = downloader.assets_info.assets

\* C9 amended: after every download(), whatever it ended with, the success
\* records of the installer output are merged into the AssetDownloader's
\* in-memory metadata; the metadata is written to the manifest's info file
\* only when download() ended with SUCCESS; after MISSING_ASSET or FAILED the
\* manifest has no info file on disk.
C9_InfoFileWrittenOnSuccessOnly ==
    outcome.result # "" =>
        LET info == ASSET_CACHE_DIR.info[downloader.project_name]
        IN  /\ SuccessRecords(outcome.output_text) \subseteq downloader.assets_info.assets
            /\ outcome.result = "SUCCESS" =>
                   /\ info.exists
                   /\ info.manifest_hash = downloader.assets_info.manifest_hash
                   /\ info.assets = downloader.assets_info.assets
            /\ outcome.result # "SUCCESS" => ~info.exists

\* C9 witness: a run recorded an asset and then failed on a missing one: the
\* record is in memory and there is no info file.
C9_Witness ==
    /\ outcome.result = "MISSING_ASSET"
    /\ SuccessRecords(outcome.output_text) # {}
    /\ SuccessRecords(outcome.output_text) \subseteq downloader.assets_info.assets
    /\ ~ASSET_CACHE_DIR.info[downloader.project_name].exists

\* C10 as stated: a FAILED or aborted MISSING_ASSET outcome of one manifest
\* of a batch does not keep the manifests that follow it from being prepared
\* and run: when the program is over, no selected manifest is left.
C10_FailureDoesNotStopTheBatch ==
    Ran("download") /\ outcome.result \in {"FAILED", "MISSING_ASSET"} =>
        Tail(manifests) = <<>>

\* C10 amended: a FAILED outcome, or a MISSING_ASSET outcome the operator
\* aborts, ends the program: the manifests that follow in the batch are not
\* prepared or run.  A manifest is prepared only as the first of the
\* selection or after the SUCCESS of the manifest before it.
C10_FailureStopsTheBatch ==
    [][/\ pc = "download" /\ outcome'.result = "FAILED" =>
              pc' = "exited" /\ manifests' = manifests
       /\ pc = "ask" /\ pc' # "download" =>
              pc' = "exited" /\ manifests' = manifests
       /\ pc = "exited" => pc' = "menu" /\ manifests' = <<>>
       /\ pc' = "prepare" =>
              \/ pc = "menu"
              \/ pc = "download" /\ outcome'.result = "SUCCESS"]_vars

\* C10 witness: a batch of two manifests ended with the failure of the first;
\* the second was never prepared.
C10_Witness ==
    /\ Ran("download")
    /\ outcome.result = "FAILED"
    /\ Len(manifests) = 2
    /\ downloader.project_name = manifests[1]
    /\ console.exit_message = "Finished with an ERROR (see log)"

(***************************************************************************)
(* C11: the asset map of a manifest's info file over the downloads         *)
(* (HistorySpec).                                                          *)
(***************************************************************************)
\* A step of the download operation that is not the death of the process.
DownloadStep ==
    /\ pc \in {"prepare", "copy", "init", "download", "ask"}
    /\ console'.exit_message # "crash"

\* C11 as stated: over any sequence of download sessions for the same
\* manifest the asset map of its info file only grows: every asset hash that
\* the manifest's info file named before a (re)download is named by the info
\* file that the download writes.
C11_PersistedAssetMapOnlyGrows ==
    outcome.result = "SUCCESS" =>
        replaced \subseteq Keys(ASSET_CACHE_DIR.info[downloader.project_name].assets)

\* C11 amended: within one download session (one prepare and the runs that
\* follow it) the asset map only grows: no step of the session removes a key
\* from the downloader's in-memory map, and the info file written on SUCCESS
\* holds that whole map.  It does not grow from session to session: prepare
\* unlinks the manifest's info file and starts from an empty map, so the new
\* info file names only the assets recorded since that prepare.
C11_AssetMapGrowsWithinASessionOnly ==
    [][DownloadStep =>
          /\ pc \in {"download", "ask"} =>
                /\ downloader.assets_info.assets
                       \subseteq downloader'.assets_info.assets
                /\ downloader'.project_name = downloader.project_name
          /\ pc = "prepare" =>
                /\ downloader'.assets_info.assets = {}
                /\ ~ASSET_CACHE_DIR'.info[Head(manifests)].exists
          /\ pc = "download" /\ outcome'.result = "SUCCESS" =>
                ASSET_CACHE_DIR'.info[downloader.project_name].assets
                    = downloader'.assets_info.assets]_vars

\* C11 witness: the info file of the manifest named two assets before the
\* session; the session recorded one asset in a run that ended with a missing
\* asset and none in the run that succeeded, and the info file it wrote names
\* that one asset.
C11_Witness ==
    /\ Ran("download")
    /\ outcome.result = "SUCCESS"
    /\ Cardinality(replaced) = 2
    /\ SuccessRecords(outcome.output_text) = {}
    /\ Cardinality(ASSET_CACHE_DIR.info[downloader.project_name].assets) = 1
    /\ Keys(ASSET_CACHE_DIR.info[downloader.project_name].assets) \subseteq replaced

(***************************************************************************)
(* C12 - C14: gen_assets_state and what its callers print.                 *)
(***************************************************************************)
\* A step of show_assets_state.
StateStep == pc = "menu" /\ pc' = "exited" /\ console'.operation = "state"

\* C12: the reconciliation is a function of the snapshot of the two
\* directories: show_assets_state changes no file of either, and the
\* AssetsState it got is the one gen_assets_state returns on the directories
\* as they are after the call, so a second call with no change in between
\* returns the same categories (or ends with the same error).
C12_ReconciliationIsPure ==
    /\ [][StateStep => UNCHANGED disk]_vars
    /\ [](Ran("state") => state = gen_assets_state)

\* C12 witness: a reconciliation that found files of several categories to
\* classify; reconciling the directories again gives the same AssetsState.
C12_Witness ==
    /\ Ran("state")
    /\ state.error = "none"
    /\ state.good_info_files # {}
    /\ state.outdated_info_files # {}
    /\ state.missing_asset_files # {}
    /\ state.other_files # {}
    /\ state.other_files \subseteq CacheDirFiles
    /\ state = gen_assets_state

\* C13: when cleanup_assets refuses because a 'to process' category is not
\* empty, what it prints names the categories that are not empty (missing
\* assets, new projects, outdated projects).
C13_RefusalNamesTheBlockingCategories ==
    Ran("cleanup") /\ state.error = "none" /\ ToProcess(state) # {} =>
        /\ state.missing_asset_files # {} =>
               "To process: Missing assets" \in console.printed
        /\ state.missing_info_files # {} =>
               "To process: New projects" \in console.printed
        /\ state.outdated_info_files # {} =>
               "To process: Outdated projects" \in console.printed

\* C14: when the cache directory or the manifest directory does not exist,
\* show_assets_state and cleanup_assets end in gen_assets_state with its
\* fatal error, nothing is classified or printed, and no file is created,
\* changed or deleted.
C14_MissingDirectoryIsFatal ==
    [][/\ StateStep \/ CleanupStep
       /\ ~ASSET_CACHE_DIR.is_dir \/ ~MANIFEST_DIR.is_dir
       =>
       /\ console'.exit_message =
              IF ~ASSET_CACHE_DIR.is_dir
              THEN "error (asset cache dir not found)"
              ELSE "error (manifest dir not found)"
       /\ state' = NoState(console'.exit_message)
       /\ console'.printed = {}
       /\ console'.deleted = {}
       /\ UNCHANGED disk]_vars

\* C14 witness: cleanup_assets ended with the fatal error of the manifest
\* directory; the files of the cache directory, which it would have deleted
\* as extra, are still there.
C14_Witness ==
    /\ Ran("cleanup")
    /\ ~MANIFEST_DIR.is_dir
    /\ ASSET_CACHE_DIR.is_dir
    /\ console.exit_message = "error (manifest dir not found)"
    /\ state = NoState("error (manifest dir not found)")
    /\ {"a1", "notes.txt"} \subseteq CacheDirFiles

(***************************************************************************)
(* C15: AssetsInfo.load_from_files (LoadSpec).                             *)
(***************************************************************************)
\* The first of a set of indices.
First(indices) == CHOOSE i \in indices : \A j \in indices : i <= j

\* The union of the asset maps of a list of loaded records, the entry of a
\* later record replacing that of an earlier one with the same key.
LaterWins(loads) ==
    {e \in UNION {loads[i].assets : i \in 1..Len(loads)} :
        \E i \in 1..Len(loads) :
            /\ e \in loads[i].assets
            /\ \A j \in (i + 1)..Len(loads) : e[1] \notin Keys(loads[j].assets)}

\* C15: load_from_files(files, missing_ok) loads each file as load_from_file
\* loads it (with missing_ok an absent file gives an empty record, without it
\* the FileNotFoundError) and returns the union of the asset maps, a later
\* file overwriting an earlier one on the same key; it raises only what
\* load_from_file raises on the first file that cannot be loaded.
C15_LoadFromFilesIsTheUnion ==
    call.returned =>
        LET loads == [i \in 1..Len(call.files) |->
                         load_from_file(call.files[i], call.missing_ok)]
            failing == {i \in 1..Len(call.files) : loads[i].raised # "none"}
        IN  IF failing = {}
            THEN call.raised = "none" /\ call.assets = LaterWins(loads)
            ELSE call.raised = loads[First(failing)].raised

(***************************************************************************)
(* C16 - C20: one manifest's way through download_manifest_assets.         *)
(*   PREPARING      pc = "prepare", "copy", "init"                         *)
(*   RUNNING        pc = "download"                                        *)
(*   SUCCESS, MISSING_ASSET, FAILED    outcome.result, set by the step     *)
(*                  that leaves "download"; "ask" is MISSING_ASSET waiting *)
(*                  for the operator's answer                              *)
(***************************************************************************)
\* The process dies: it is killed, or prepare ends with the uncaught
\* FileNotFoundError of a manifest deleted under it.
Dies == pc' = "exited" /\ console'.exit_message \in {"crash", "FileNotFoundError"}

\* A step of the program (every one of them moves pc), not of the operator
\* editing a manifest meanwhile.
ProgramStep == pc' # pc

\* C16: as long as the process lives, the orchestration of a manifest takes
\* only the transitions PREPARING -> RUNNING -> {SUCCESS, MISSING_ASSET,
\* FAILED}.  SUCCESS and FAILED are final for the manifest: after SUCCESS the
\* loop returns (next manifest or 'Done'), after FAILED the program stops.
\* From MISSING_ASSET the only ways on are back to RUNNING with the same
\* downloader (repeat) and the end of the program (abort).
C16_OrchestrationTransitions ==
    [][ProgramStep /\ ~Dies =>
          /\ pc = "prepare" => pc' = "copy"
          /\ pc = "copy" => pc' = "init"
          /\ pc = "init" => pc' = "download"
          /\ pc' = "download" => pc \in {"init", "ask"}
          /\ pc = "download" =>
                /\ outcome'.result \in {"SUCCESS", "MISSING_ASSET", "FAILED"}
                /\ outcome'.result = "SUCCESS" =>
                      /\ manifests' = Tail(manifests)
                      /\ \/ pc' = "prepare" /\ manifests' # <<>>
                         \/ pc' = "exited" /\ console'.exit_message = "Done"
                /\ outcome'.result = "FAILED" =>
                      /\ pc' = "exited"
                      /\ console'.exit_message = "Finished with an ERROR (see log)"
                /\ outcome'.result = "MISSING_ASSET" => pc' = "ask"
          /\ pc = "ask" =>
                \/ /\ pc' = "download"
                   /\ downloader' = downloader
                   /\ manifests' = manifests
                \/ /\ pc' = "exited"
                   /\ console'.exit_message = "Download aborted"]_vars

\* C16 witness: the installer is about to run again after a MISSING_ASSET and
\* the operator's repeat: the downloader holds what the earlier run recorded.
C16_Witness ==
    /\ pc = "download"
    /\ outcome = NoOutcome
    /\ downloader.assets_info.assets # {}
    /\ downloader.assets_info.manifest_hash # ""

\* C17: a repeat after MISSING_ASSET enters download() again without
\* prepare: the downloader (work directory, in-memory metadata) and the
\* directories are what they were.  Every download() merges the success
\* records of its run into the in-memory asset map and keeps the rest of it,
\* and the info file written on SUCCESS is that map: it holds the success
\* records of every run since the one prepare of the session.
C17_RetryKeepsTheSession ==
    [][/\ pc = "ask" /\ pc' # "exited" =>
              /\ pc' = "download"
              /\ downloader' = downloader
              /\ UNCHANGED <<disk, manifests>>
       /\ pc = "download" /\ ~Dies =>
              LET project_name == downloader.project_name
                  merged == downloader'.assets_info.assets
              IN  /\ downloader'.project_name = project_name
                  /\ downloader'.vcpkg_json = downloader.vcpkg_json
                  /\ downloader'.assets_info.manifest_hash
                         = downloader.assets_info.manifest_hash
                  /\ merged = downloader.assets_info.assets
                                  \cup SuccessRecords(outcome'.output_text)
                  /\ outcome'.result = "SUCCESS" =>
                         /\ ASSET_CACHE_DIR'.info[project_name].exists
                         /\ ASSET_CACHE_DIR'.info[project_name].assets = merged]_vars

\* C17 witness: the run that succeeded named no asset; the info file holds
\* the records of the runs before it.
C17_Witness ==
    /\ Ran("download")
    /\ outcome.result = "SUCCESS"
    /\ SuccessRecords(outcome.output_text) = {}
    /\ ASSET_CACHE_DIR.info[downloader.project_name].assets # {}
    /\ ASSET_CACHE_DIR.info[downloader.project_name].assets
           = downloader.assets_info.assets

\* The info file of project p as load_from_file reads it holds a manifest
\* hash.
HashSet(file) ==
    /\ file.exists
    /\ load_from_file(file, FALSE).raised = "none"
    /\ load_from_file(file, FALSE).manifest_hash # ""

\* C18: prepare is over before the installer first runs: while it runs, and
\* while the operator is asked, the work directory has its copy of the
\* manifest and the manifest hash is taken.  From prepare to the end of the
\* run the manifest has no info file; the file is written by download() only,
\* after the installer has exited with code 0 and its output was parsed and
\* merged.  So an info file from which a manifest hash can be read always
\* holds the whole asset map of a finished download(); when the process dies
\* during a run the manifest is left with no info file, or (death inside
\* AssetsInfo.save) with a file that is not JSON and gives no hash.
C18_InfoFileWrittenAfterTheRun ==
    /\ [](pc \in {"download", "ask"} =>
             /\ downloader.vcpkg_json # NoFile
             /\ downloader.assets_info.manifest_hash # "")
    /\ [](pc \in {"copy", "init", "download", "ask"} =>
             ~ASSET_CACHE_DIR.info[downloader.project_name].exists)
    /\ [][\A p \in Projects :
             LET old == ASSET_CACHE_DIR.info[p]
                 new == ASSET_CACHE_DIR'.info[p]
             IN  new # old /\ new.exists =>
                     /\ pc = "download"
                     /\ p = downloader.project_name
                     /\ IF HashSet(new)
                        THEN /\ outcome'.result = "SUCCESS"
                             /\ outcome'.exit_code = 0
                             /\ new.manifest_hash = downloader.assets_info.manifest_hash
                             /\ new.assets =
                                    DictUpdate(downloader.assets_info.assets,
                                               SuccessRecords(outcome'.output_text))
                        ELSE /\ console'.exit_message = "crash"
                             /\ new.truncated]_vars

\* C18 witness: the process died while the installer ran; assets the
\* installer had stored are in the cache directory and the manifest has no
\* info file.
C18_Witness ==
    /\ Ran("download")
    /\ console.exit_message = "crash"
    /\ downloader.project_name = "p2"
    /\ MANIFEST_DIR.files["p2"] # NoFile
    /\ {"a1", "a2"} \subseteq ASSET_CACHE_DIR.blobs
    /\ ~ASSET_CACHE_DIR.info["p2"].exists

\* The download session of the downloader's manifest is over and did not end
\* with SUCCESS: it ended FAILED, or MISSING_ASSET and abort, or the process
\* died after prepare.
EndedWithoutSuccess ==
    /\ Ran("download")
    /\ downloader.project_name # ""
    /\ console.exit_message \in
           {"Finished with an ERROR (see log)", "Download aborted",
            "crash", "FileNotFoundError"}

\* C19: when the download session of manifest M ended without SUCCESS, M has
\* no info file on disk; and if M is (still) in the manifest directory, a
\* reconciliation classifies M as missing, so that cleanup_assets finds
\* files to process and refuses.
C19_NoInfoFileAfterAnUnsuccessfulSession ==
    EndedWithoutSuccess =>
        LET M == downloader.project_name
        IN  /\ ~ASSET_CACHE_DIR.info[M].exists
            /\ MANIFEST_DIR.files[M] # NoFile =>
                   /\ gen_assets_state.error = "none"
                   /\ InfoFileName(M) \in gen_assets_state.missing_info_files
                   /\ files_to_process(gen_assets_state) # {}

\* C20: the info file download() writes for manifest M stores the hash of
\* the manifest bytes that prepare copied into the work directory and the
\* installer ran on, whenever the manifest file was edited; so M is not
\* classified good (stored hash = hash of the manifest as it is now) unless
\* the manifest is what the installer ran on.
C20_StoredHashIsTheHashOfTheCopy ==
    outcome.result = "SUCCESS" =>
        LET M == downloader.project_name
            info == ASSET_CACHE_DIR.info[M]
        IN  /\ info.manifest_hash = calc_file_hash(downloader.vcpkg_json)
            /\ M \in UpToDate => MANIFEST_DIR.files[M] = downloader.vcpkg_json

(***************************************************************************)
(* C21 - C23: a download session and the reconciliations around it.        *)
(***************************************************************************)
\* C21: when the download session of manifest M has ended in SUCCESS, a
\* reconciliation of the directories as the session left them (M's file
\* unchanged) returns a state, classifies M's info file as good (neither
\* missing nor outdated), and has every asset hash that a success line
\* recorded during the session as a key of the trusted asset map.
C21_SuccessfulSessionIsGoodAtTheNextReconciliation ==
    outcome.result = "SUCCESS" =>
        LET M == downloader.project_name
            st == gen_assets_state
        IN  /\ st.error = "none"
            /\ InfoFileName(M) \in st.good_info_files
            /\ InfoFileName(M) \notin
                   st.missing_info_files \cup st.outdated_info_files
            /\ Keys(downloader.assets_info.assets)
                   \subseteq Keys(st.good_assets_info.assets)

\* C22: cleanup reaches a fixpoint.  After a cleanup_assets that deleted
\* files, a reconciliation of the directories as it left them returns a
\* state with no extra asset file, no extra info file and no other file, with
\* the good asset files, the good info files, the trusted asset map and the
\* (empty) to-process categories of the state the cleanup reconciled; so a
\* second cleanup_assets has nothing to process and nothing to delete.
C22_CleanupReachesAFixpoint ==
    Ran("cleanup") /\ console.deleted # {} =>
        LET st == gen_assets_state
        IN  /\ st.error = "none"
            /\ st.extra_asset_files = {}
            /\ st.extra_info_files = {}
            /\ st.other_files = {}
            /\ st.good_asset_files = state.good_asset_files
            /\ st.good_info_files = state.good_info_files
            /\ st.good_assets_info = state.good_assets_info
            /\ st.missing_asset_files = {} /\ state.missing_asset_files = {}
            /\ st.missing_info_files = {} /\ state.missing_info_files = {}
            /\ st.outdated_info_files = {} /\ state.outdated_info_files = {}
            /\ files_to_process(st) = {}
            /\ files_to_delete(st) = {}

\* C22 witness: a cleanup deleted an extra asset file, an extra info file and
\* another file; the reconciliation of what it left finds a good info file
\* and a good asset file, and nothing else.
C22_Witness ==
    /\ Ran("cleanup")
    /\ console.deleted \cap HexNames # {}
    /\ console.deleted \cap InfoNames # {}
    /\ console.deleted \cap OtherNames # {}
    /\ gen_assets_state.good_info_files # {}
    /\ gen_assets_state.good_asset_files # {}
    /\ Listing(gen_assets_state) =
           gen_assets_state.good_info_files \cup gen_assets_state.good_asset_files

\* A step of the program inside a download session (the operator's edits of
\* the manifest leave pc alone).
SessionStep ==
    /\ pc \in {"prepare", "copy", "init", "download", "ask"}
    /\ pc' # pc

\* The manifest of the session a step at pc belongs to.
SessionManifest ==
    IF pc = "prepare" THEN Head(manifests) ELSE downloader.project_name

\* How a reconciliation classifies the info file of manifest q: "none" when
\* gen_assets_state does not return a state.
Classification(q) ==
    LET st == gen_assets_state
    IN  CASE st.error # "none" -> "none"
          [] InfoFileName(q) \in st.good_info_files -> "good"
          [] InfoFileName(q) \in st.outdated_info_files -> "outdated"
          [] InfoFileName(q) \in st.missing_info_files -> "missing"
          [] OTHER -> "no manifest"

\* C23: a step of the download session of manifest M leaves the manifest
\* directory and the info file of every other manifest as they are and
\* removes no file that is not an info file from the cache directory (the
\* orchestrator deletes no asset blob), and a reconciliation run after the
\* step classifies the info file of every other manifest (good, outdated,
\* missing) as a reconciliation run before the step did, when that one
\* returned a state.
C23_SessionTouchesOnlyItsOwnManifest ==
    [][SessionStep =>
          /\ MANIFEST_DIR' = MANIFEST_DIR
          /\ ASSET_CACHE_DIR.blobs \subseteq ASSET_CACHE_DIR'.blobs
          /\ \A q \in Projects \ {SessionManifest} :
                /\ ASSET_CACHE_DIR'.info[q] = ASSET_CACHE_DIR.info[q]
                /\ Classification(q) \in {"good", "outdated", "missing"} =>
                       Classification(q)' = Classification(q)]_vars

====
